---- MODULE Spec2Model ----
(***************************************************************************)
(* A model of libfreerdp/core/tcp.c: the buffered socket BIO               *)
(* (transport_bio_buffered_write / transport_bio_buffered_ctrl) and the    *)
(* connection establishment (freerdp_tcp_connect_timeout,                  *)
(* freerdp_tcp_connect_multi, freerdp_tcp_default_connect).                *)
(***************************************************************************)
EXTENDS Integers, Sequences, FiniteSets, TLC

\* ------------------------------------------------------------------ bounds
\* Total number of bytes handed to the buffered write over one behaviour.
MaxBytes == 4
\* Longest buffer handed to one write call.
MaxWrite == 2
\* Cap on the consecutive no-progress retries counted inside one write call.
MaxAttempts == 2

\* Largest timeout (in ms) handed to freerdp_tcp_default_connect.
MaxTimeout == 1
\* Width of a DWORD / UINT32.
DwordBits == 4
\* Most BIO_C_SET_SOCKET / BIO_C_SET_FD calls on one BIO.
MaxSets == 2
\* Most interruptions (EINTR) of one readiness call.
MaxIntr == 2
\* Most calls of Close on one transport layer.
MaxCloses == 2
\* Largest TargetNetAddressCount.
MaxCands == 2

\* ------------------------------------------------------- program constants
INT32_MAX == 2147483647
\* 0xFFFFFFFF, the largest DWORD, at the width DwordBits of the model.
INFINITE == 2^DwordBits - 1

VARIABLES
    \* WINPR_BIO_BUFFERED_SOCKET and the BIO flags of the buffered BIO
    xmitBuffer,      \* the bytes held by ptr->xmitBuffer, oldest first
    writeBlocked,    \* ptr->writeBlocked
    bioFlags,        \* flags of bio: subset of {"WRITE", "SHOULD_RETRY"}
    \* the next BIO of the chain (BIO_next(bio))
    nextBio,         \* "ready" | "full" | "wantread" | "dead"
    accepted,        \* the bytes BIO_write(next_bio, ...) has accepted, in order
    \* the activation of transport_bio_buffered_write
    bw_pc,           \* "idle" | "drain"
    chunks,          \* DataChunk chunks[2]: the bytes each chunk still covers
    i,               \* index of the for loop (1-based), 0 when idle
    committedBytes,
    ret,
    attempts,        \* BIO_write calls of this activation that made no progress
    \* history
    submitted,       \* every byte handed to a write call, in call order
    queued,          \* every byte ringbuffer_write appended, in call order
    call,            \* the current or last call and what happened in it
    \* ---- connection establishment ----
    \* the operating system and the other threads
    openFds,         \* the descriptors that are open
    closeLog,        \* every close()/closesocket() issued, in order
    freeLog,         \* every freeaddrinfo() issued: <<list, first entry released>>
    abortEv,         \* utils_get_abort_event(context->rdp) is signaled
    conn,            \* state of the connect started by _connect on sockfd
    readyEv,         \* handles[0] is signaled (FD_CONNECT/FD_WRITE/FD_READ/FD_CLOSE)
    abortFirst,      \* history: abortEv was already signaled when readyEv fired
    \* freerdp_tcp_default_connect
    dc_pc,           \* position in freerdp_tcp_default_connect
    hostname,        \* the kind of its hostname argument, once it is called
    settings,        \* the rdpSettings fields the function reads
    timeout,         \* its timeout argument
    sockfd,
    lastError,       \* context->LastError
    resList,         \* address families of the list freerdp_tcp_resolve_host returned
    addr,            \* index into resList (0 = NULL)
    multi,           \* what freerdp_tcp_connect_multi did, once it has been called
    dcRet,           \* the value returned
    \* freerdp_tcp_connect_timeout
    ct_pc,           \* "idle" | "wait" | "probe" | "ret"
    hEvent,          \* handles[0]: "none" | "open" | "closed"
    hEventCloses,    \* CloseHandle(handles[0]) calls
    ct_rc,           \* the BOOL returned
    ct_why,          \* history: the exit taken
    dcHist,          \* history: sockets the call created, socket() attempts, handle closes
    \* ---- one function called on its own ----
    fn,              \* the call: the function, its arguments, whether it has returned
    \* ---- simple socket BIO and TCP transport layer ----
    sb,              \* the simple socket BIO: WINPR_BIO_SIMPLE_SOCKET and the BIO's own fields
    tl,              \* the rdpTcpLayer of a transport layer
    os,              \* open descriptors and event handles, and the closes issued on them
    wsaError,        \* the thread's last socket error (WSAGetLastError)
    lastRead,        \* history: the last read call and what it reported
    ioCalls,         \* history: calls made so far
    lastWait         \* history: the last freerdp_tcp_layer_wait call and what it returned

bufVars == <<xmitBuffer, writeBlocked, bioFlags, nextBio, accepted, bw_pc, chunks, i,
             committedBytes, ret, attempts, submitted, queued, call>>

connVars == <<openFds, closeLog, freeLog, abortEv, conn, readyEv, abortFirst,
              dc_pc, hostname, settings, timeout, sockfd, lastError, resList, addr, multi, dcRet,
              ct_pc, hEvent, hEventCloses, ct_rc, ct_why, dcHist>>

fnVars == <<fn>>

ioVars == <<sb, tl, os, wsaError, lastRead, ioCalls>>

waitVars == <<lastWait>>

vars == <<bufVars, connVars, fnVars, ioVars, waitVars>>

\* What the steps of one part of the program leave alone.
notBuf == <<connVars, fnVars, ioVars, waitVars>>
notConn == <<bufVars, fnVars, ioVars, waitVars>>
notFn == <<bufVars, ioVars, waitVars>>
notIo == <<bufVars, connVars, fnVars, waitVars>>
notWait == <<bufVars, connVars, fnVars, ioVars>>

FREERDP_ERROR_SUCCESS == "SUCCESS"

INVALID_SOCKET == 0 - 1

NoSettings == [GatewayEnabled |-> FALSE, RemoteAssistanceMode |-> FALSE,
               TargetNetAddressCount |-> 0, PreferIPv6OverIPv4 |-> FALSE, ForceIPvX |-> 0]

NoMulti == [called |-> FALSE, ret |-> 0, won |-> FALSE, created |-> {}, closes |-> << >>,
            attempts |-> << >>, frees |-> << >>]

\* made: the sockets freerdp_tcp_default_connect created itself, each with the
\* number of closes logged before it; tried: the entries of the resolved list
\* socket() was called for; abortCloses: CloseHandle calls on the abort event.
NoHist == [made |-> << >>, tried |-> << >>, abortCloses |-> 0]

\* The address lists a resolution can return (ai_family of each entry).
ResLists == {<<"AF_INET">>, <<"AF_INET6">>, <<"AF_INET6", "AF_INET">>,
             <<"AF_INET", "AF_INET6">>, <<"AF_INET6", "AF_INET6", "AF_INET">>}

\* The lists the host name itself can resolve to: also one with two entries of
\* each family.
HostLists == ResLists \cup {<<"AF_INET6", "AF_INET", "AF_INET", "AF_INET6">>}

\* What the system answers for one candidate of the multi-target connect: the
\* list its name resolves to (empty: it does not resolve), whether socket()
\* succeeds, whether connect() succeeds.
Candidates ==
    {[res |-> << >>, sockOk |-> FALSE, connOk |-> FALSE]}
    \cup {[res |-> l, sockOk |-> FALSE, connOk |-> FALSE] : l \in ResLists}
    \cup {[res |-> l, sockOk |-> TRUE, connOk |-> c] : l \in ResLists, c \in BOOLEAN}

\* The timeouts a caller passes: none, short ones, and the largest UINT32.
Timeouts == (0..MaxTimeout) \cup {INFINITE}

SettingsSet ==
    [GatewayEnabled : BOOLEAN, RemoteAssistanceMode : BOOLEAN,
     TargetNetAddressCount : 0..MaxCands, PreferIPv6OverIPv4 : BOOLEAN, ForceIPvX : {0, 4, 6}]

\* ------------------------------------------------------------------ helpers
Min(a, b) == IF a < b THEN a ELSE b

IsPrefix(p, s) == Len(p) <= Len(s) /\ SubSeq(s, 1, Len(p)) = p

Range(s) == {s[k] : k \in 1..Len(s)}

\* --------------------------------------------------------------- RingBuffer
\* The ring buffer is a byte queue: write appends, peek shows the used bytes as
\* at most two contiguous chunks (split where the storage wraps), commit drops
\* the oldest bytes.
ringbuffer_used(rb) == Len(rb)

ringbuffer_write(rb, data) == rb \o data

\* wrap: number of used bytes stored before the end of the storage (>= 1).
ringbuffer_peek(rb, wrap) == <<SubSeq(rb, 1, wrap), SubSeq(rb, wrap + 1, Len(rb))>>

ringbuffer_commit_read_bytes(rb, sz) == SubSeq(rb, sz + 1, Len(rb))

NoChunks == <<<< >>, << >>>>

NoCall == [op |-> "none", num |-> 0, buf |-> << >>, pendBefore |-> 0, accBefore |-> 0,
           appended |-> 0, blocked |-> FALSE, fatal |-> FALSE, afterFatal |-> FALSE,
           done |-> TRUE, result |-> 0]

NewCall(op, n, buf, app) ==
    [op |-> op, num |-> n, buf |-> buf, pendBefore |-> Len(xmitBuffer),
     accBefore |-> Len(accepted), appended |-> app, blocked |-> FALSE, fatal |-> FALSE,
     afterFatal |-> call.fatal, done |-> FALSE, result |-> 0]

\* ------------------------------------------------------------------- Init
BufInit ==
    /\ xmitBuffer = << >>
    /\ writeBlocked = FALSE
    /\ bioFlags = {"SHOULD_RETRY"}
    /\ nextBio = "ready"
    /\ accepted = << >>
    /\ bw_pc = "idle"
    /\ chunks = NoChunks
    /\ i = 0
    /\ committedBytes = 0
    /\ ret = 0
    /\ attempts = 0
    /\ submitted = << >>
    /\ queued = << >>
    /\ call = NoCall

\* Nothing has been called yet: descriptors 0, 1, 2 are the standard streams.
ConnInit ==
    /\ openFds = {0, 1, 2}
    /\ closeLog = << >>
    /\ freeLog = << >>
    /\ abortEv = FALSE
    /\ conn = "none"
    /\ readyEv = FALSE
    /\ abortFirst = FALSE
    /\ dc_pc = "idle"
    /\ hostname = "none"
    /\ settings = NoSettings
    /\ timeout = 0
    /\ sockfd = 0
    /\ lastError = FREERDP_ERROR_SUCCESS
    /\ resList = << >>
    /\ addr = 0
    /\ multi = NoMulti
    /\ dcRet = 0
    /\ ct_pc = "idle"
    /\ hEvent = "none"
    /\ hEventCloses = 0
    /\ ct_rc = FALSE
    /\ ct_why = "none"
    /\ dcHist = NoHist

\* No function is called on its own.
NoFn == [op |-> "none", cands |-> << >>, open |-> {}, input |-> 0, errorCode |-> "none",
         done |-> TRUE, rc |-> 0]

\* No BIO has been created: the fields of a WINPR_BIO_SIMPLE_SOCKET after calloc.
NoBio == [stage |-> "none", socket |-> 0, hEvent |-> 0, init |-> FALSE, shutdown |-> FALSE,
          flags |-> {}]

\* No transport layer has been built.
NoLayer == [stage |-> "none", sockfd |-> 0 - 1, hEvent |-> 0]

NoRead == [by |-> "none", status |-> 0, stale |-> "none", ret |-> 0, retry |-> FALSE,
           eagain |-> FALSE]

NoWait == [called |-> FALSE, waitWrite |-> FALSE, timeout |-> 0, polls |-> 0,
           outcome |-> "none", ret |-> FALSE]

\* Descriptors 0, 1, 2 are the standard streams; no event handle exists.
IoInit ==
    /\ sb = NoBio
    /\ tl = NoLayer
    /\ os = [fds |-> {0, 1, 2}, events |-> {}, evMade |-> 0,
             sockCloses |-> << >>, evCloses |-> << >>]
    /\ wsaError = "none"
    /\ lastRead = NoRead
    /\ ioCalls = [handed |-> << >>, bioEvents |-> {}, closes |-> 0]
    /\ lastWait = NoWait

Init == BufInit /\ ConnInit /\ fn = NoFn /\ IoInit

\* ------------------------------------------- transport_bio_buffered_write
\* const size_t wr = MIN(INT32_MAX, chunks[i].size);
Wr(size) == Min(INT32_MAX, size)

\* Mutant: the count is assigned instead of accumulated.
CommittedAfter_Assign(c, status) == status

\* committedBytes += (size_t)status;
CommittedAfter(c, status) == c + status

\* Mutant: the size shrinks but the data pointer is not advanced.
ChunkAfter_NoAdvance(chunk, status) == SubSeq(chunk, 1, Len(chunk) - status)

\* chunks[i].size -= status; chunks[i].data += status;
ChunkAfter(chunk, status) == SubSeq(chunk, status + 1, Len(chunk))

\* Mutant: the fatal branch leaves without setting ret.
FatalRet_Unset == ret

\* ret = -1;  (fatal error)
FatalRet == 0 - 1

\* Mutant: the would-block branch does not raise the flag.
BlockedFlag_Unset == FALSE

\* ptr->writeBlocked = TRUE;  (EWOULDBLOCK)
BlockedFlag == TRUE

\* Mutant: the ring buffer is emptied on the way out.
CommitOut_All(rb, committed) == << >>

\* out: ringbuffer_commit_read_bytes(&ptr->xmitBuffer, committedBytes);
CommitOut(rb, committed) == ringbuffer_commit_read_bytes(rb, committed)

\* Mutant: the comparison is strict.
FlushStatus_Strict(r) == IF r > 0 THEN 1 ELSE 0 - 1

\* BIO_CTRL_FLUSH: status = (transport_bio_buffered_write(bio, NULL, 0) >= 0) ? 1 : -1;
FlushStatus(r) == IF r >= 0 THEN 1 ELSE 0 - 1

\* The value the caller sees: write returns ret, ctrl(FLUSH) converts it.
CallResult(c, r) == IF c.op = "flush" THEN FlushStatus(r) ELSE r

\* First index >= k of a chunk that still has bytes, or 3 when the loops are over.
LoopPos(chs, k) ==
    IF k <= 2 /\ chs[k] # << >> THEN k
    ELSE IF k < 2 /\ chs[2] # << >> THEN 2
    ELSE 3

\* Leaving through "out:": commit what BIO_write accepted and return r.
Out(rb, committed, r, c) ==
    /\ xmitBuffer' = CommitOut(rb, committed)
    /\ bw_pc' = "idle"
    /\ chunks' = NoChunks
    /\ i' = 0
    /\ committedBytes' = 0
    /\ ret' = 0
    /\ attempts' = 0
    /\ call' = [c EXCEPT !.done = TRUE, !.result = CallResult(c, r)]

\* The flag keeps the value the last call left.
EntryBlocked_Kept(wb) == wb

\* ptr->writeBlocked = FALSE;  (on entry, line 473)
EntryBlocked(wb) == FALSE

\* Lines 473-486 with the buffer already appended (or nothing to append).
Enter(rb, c, n) ==
    /\ writeBlocked' = EntryBlocked(writeBlocked)
    /\ bioFlags' = bioFlags \ {"WRITE"}
    /\ IF ringbuffer_used(rb) = 0
       THEN Out(rb, 0, n, c)
       ELSE /\ \E wrap \in 1..ringbuffer_used(rb) : chunks' = ringbuffer_peek(rb, wrap)
            /\ xmitBuffer' = rb
            /\ bw_pc' = "drain"
            /\ i' = 1
            /\ committedBytes' = 0
            /\ ret' = n
            /\ attempts' = 0
            /\ call' = c

\* if (num < 0) return num;
WriteNegative ==
    /\ bw_pc = "idle"
    /\ call' = [NewCall("write", 0 - 1, << >>, 0) EXCEPT !.done = TRUE, !.result = 0 - 1]
    /\ UNCHANGED <<xmitBuffer, writeBlocked, bioFlags, nextBio, accepted, bw_pc, chunks, i,
                   committedBytes, ret, attempts, submitted, queued>>

\* ringbuffer_write fails: log and return -1 (lines 479-483).
WriteAppendFails ==
    /\ bw_pc = "idle"
    /\ \E n \in 1..MaxWrite :
        /\ Len(submitted) + n <= MaxBytes
        /\ LET buf == [k \in 1..n |-> Len(submitted) + k] IN
            /\ submitted' = submitted \o buf
            /\ call' = [NewCall("write", n, buf, 0) EXCEPT !.done = TRUE, !.result = 0 - 1]
    /\ writeBlocked' = EntryBlocked(writeBlocked)
    /\ bioFlags' = bioFlags \ {"WRITE"}
    /\ UNCHANGED <<xmitBuffer, nextBio, accepted, bw_pc, chunks, i, committedBytes, ret,
                   attempts, queued>>

\* A write of n >= 0 bytes: append, peek, start draining.
WriteCall ==
    /\ bw_pc = "idle"
    /\ \E n \in 0..MaxWrite :
        /\ Len(submitted) + n <= MaxBytes
        /\ LET buf == [k \in 1..n |-> Len(submitted) + k] IN
            /\ submitted' = submitted \o buf
            /\ queued' = queued \o buf
            /\ Enter(ringbuffer_write(xmitBuffer, buf), NewCall("write", n, buf, n), n)
    /\ UNCHANGED <<nextBio, accepted>>

\* BIO_write accepted status bytes of the current chunk.
DrainAccept ==
    /\ bw_pc = "drain"
    /\ nextBio = "ready"
    /\ \E status \in 1..Wr(Len(chunks[i])) :
        LET chs == [chunks EXCEPT ![i] = ChunkAfter(chunks[i], status)]
            cb == CommittedAfter(committedBytes, status)
            pos == LoopPos(chs, i)
        IN /\ accepted' = accepted \o SubSeq(chunks[i], 1, status)
           /\ IF pos > 2
              THEN Out(xmitBuffer, cb, ret, call)
              ELSE /\ chunks' = chs
                   /\ i' = pos
                   /\ committedBytes' = cb
                   /\ attempts' = 0
                   /\ UNCHANGED <<xmitBuffer, bw_pc, ret, call>>
    /\ UNCHANGED <<writeBlocked, bioFlags, nextBio, submitted, queued>>

\* status <= 0, BIO_should_retry and BIO_should_write: EWOULDBLOCK.
DrainWouldBlock ==
    /\ bw_pc = "drain"
    /\ nextBio = "full"
    /\ bioFlags' = bioFlags \cup {"WRITE"}
    /\ writeBlocked' = BlockedFlag
    /\ Out(xmitBuffer, committedBytes, ret, [call EXCEPT !.blocked = TRUE])
    /\ UNCHANGED <<nextBio, accepted, submitted, queued>>

\* status <= 0 and not BIO_should_retry: fatal error.
DrainFatal ==
    /\ bw_pc = "drain"
    /\ nextBio = "dead"
    /\ bioFlags' = bioFlags \ {"SHOULD_RETRY"}
    /\ Out(xmitBuffer, committedBytes, FatalRet, [call EXCEPT !.fatal = TRUE])
    /\ UNCHANGED <<writeBlocked, nextBio, accepted, submitted, queued>>

\* status <= 0, BIO_should_retry but not BIO_should_write: the while loop goes round.
DrainRetryOther ==
    /\ bw_pc = "drain"
    /\ nextBio = "wantread"
    /\ attempts < MaxAttempts
    /\ attempts' = attempts + 1
    /\ UNCHANGED <<xmitBuffer, writeBlocked, bioFlags, nextBio, accepted, bw_pc, chunks, i,
                   committedBytes, ret, submitted, queued, call>>

\* -------------------------------------------- transport_bio_buffered_ctrl
\* BIO_CTRL_FLUSH with an empty ring buffer: status = 1, nothing else happens.
FlushEmpty ==
    /\ bw_pc = "idle"
    /\ ringbuffer_used(xmitBuffer) = 0
    /\ call' = [NewCall("flush", 0, << >>, 0) EXCEPT !.done = TRUE, !.result = 1]
    /\ UNCHANGED <<xmitBuffer, writeBlocked, bioFlags, nextBio, accepted, bw_pc, chunks, i,
                   committedBytes, ret, attempts, submitted, queued>>

\* BIO_CTRL_FLUSH with bytes queued: transport_bio_buffered_write(bio, NULL, 0).
FlushCall ==
    /\ bw_pc = "idle"
    /\ ringbuffer_used(xmitBuffer) # 0
    /\ Enter(xmitBuffer, NewCall("flush", 0, << >>, 0), 0)
    /\ UNCHANGED <<nextBio, accepted, submitted, queued>>

\* BIO_CTRL_WPENDING
WPending == ringbuffer_used(xmitBuffer)

\* ------------------------------------------------------------ environment
\* The next BIO changes what it will answer; a dead stream stays dead.
NextBioChanges ==
    /\ nextBio # "dead"
    /\ \E s \in {"ready", "full", "wantread", "dead"} : s # nextBio /\ nextBio' = s
    /\ UNCHANGED <<xmitBuffer, writeBlocked, bioFlags, accepted, bw_pc, chunks, i,
                   committedBytes, ret, attempts, submitted, queued, call>>

BufNext ==
    \/ WriteNegative /\ UNCHANGED notBuf
    \/ WriteAppendFails /\ UNCHANGED notBuf
    \/ WriteCall /\ UNCHANGED notBuf
    \/ DrainAccept /\ UNCHANGED notBuf
    \/ DrainWouldBlock /\ UNCHANGED notBuf
    \/ DrainFatal /\ UNCHANGED notBuf
    \/ DrainRetryOther /\ UNCHANGED notBuf
    \/ FlushEmpty /\ UNCHANGED notBuf
    \/ FlushCall /\ UNCHANGED notBuf
    \/ NextBioChanges /\ UNCHANGED notBuf


Next == BufNext

Spec == Init /\ [][Next]_vars

\* ======================================================= connection set-up
\* --------------------------------------------------------------- the system
SetMin(S) == CHOOSE x \in S : \A y \in S : x <= y

\* socket() returns the lowest descriptor that is not open.
LowestFree(open) == SetMin({n \in 0..Cardinality(open) : n \notin open})

\* The descriptor the n-th of n socket() calls in a row returns.
RECURSIVE NthFree(_, _)
NthFree(open, n) ==
    IF n = 1 THEN LowestFree(open)
    ELSE NthFree(open \cup {LowestFree(open)}, n - 1)

\* close(fd) / closesocket(fd)
Close(fd) ==
    /\ openFds' = openFds \ {fd}
    /\ closeLog' = Append(closeLog, fd)

\* freerdp_set_last_error_if_not(context, code)
SetLastErrorIfNot(code) == IF lastError = FREERDP_ERROR_SUCCESS THEN code ELSE lastError

\* The abort event is set by another thread, at any time before the call returns.
AbortSignal ==
    /\ ~abortEv
    /\ dc_pc # "done"
    /\ abortEv' = TRUE
    /\ UNCHANGED <<dcHist, hostname, openFds, closeLog, freeLog, conn, readyEv, abortFirst,
                   dc_pc, settings, timeout, sockfd, lastError, resList, addr, multi, dcRet,
                   ct_pc, hEvent, hEventCloses, ct_rc, ct_why>>

\* The connect in progress ends: established, refused, unreachable, or established
\* and reset at once. Whatever the end, the readiness event fires.
ConnectCompletes ==
    /\ ct_pc = "wait"
    /\ conn = "inprogress"
    /\ \E o \in {"established", "refused", "unreachable", "reset"} : conn' = o
    /\ readyEv' = TRUE
    /\ abortFirst' = abortEv
    /\ UNCHANGED <<dcHist, hostname, openFds, closeLog, freeLog, abortEv,
                   dc_pc, settings, timeout, sockfd, lastError, resList, addr, multi, dcRet,
                   ct_pc, hEvent, hEventCloses, ct_rc, ct_why>>

\* The peer resets the connection just established.
PeerResets ==
    /\ ct_pc \in {"wait", "probe"}
    /\ conn = "established"
    /\ conn' = "reset"
    /\ UNCHANGED <<dcHist, hostname, openFds, closeLog, freeLog, abortEv, readyEv, abortFirst,
                   dc_pc, settings, timeout, sockfd, lastError, resList, addr, multi, dcRet,
                   ct_pc, hEvent, hEventCloses, ct_rc, ct_why>>

\* ---------------------------------------------- freerdp_tcp_connect_timeout
\* A wait that is never bounded.
Tout_Unbounded(t) == INFINITE

\* DWORD tout = (timeout > 0) ? timeout : INFINITE;
Tout(t) == IF t > 0 THEN t ELSE INFINITE

\* WaitForMultipleObjects(count, handles, FALSE, tout) when some handle is signaled:
\* the offset from WAIT_OBJECT_0 is the lowest index of a signaled handle.
WaitForMultipleObjects(signaled) ==
    SetMin({k \in 1..Len(signaled) : signaled[k]}) - 1

\* WSAGetLastError() after recv(sockfd, NULL, 0, 0): the pending error of the socket.
RecvError(c) ==
    CASE c = "reset" -> "WSAECONNRESET"
      [] c = "refused" -> "WSAECONNREFUSED"
      [] c = "unreachable" -> "WSAEHOSTUNREACH"
      [] OTHER -> "WSAEWOULDBLOCK"

\* if (res == SOCKET_ERROR) { if (WSAGetLastError() == WSAECONNRESET) goto fail; }
ProbeFails(c) == RecvError(c) = "WSAECONNRESET"

\* The last handle of the array is closed.
ExitHandle_Last(count) == count - 1

\* (void)CloseHandle(handles[0]);
ExitHandle(count) == 0

\* Leaving through "fail:" (also on success): CloseHandle(handles[0]); return rc;
\* count is the number of handles in the array: the event of this attempt, then
\* the abort event.
CT_Exit(rc, why, count) ==
    /\ hEvent' = IF ExitHandle(count) = 0 THEN "closed" ELSE "open"
    /\ hEventCloses' = IF ExitHandle(count) = 0 THEN hEventCloses + 1 ELSE hEventCloses
    /\ dcHist' = [dcHist EXCEPT !.abortCloses = IF ExitHandle(count) = 0 THEN @ ELSE @ + 1]
    /\ ct_rc' = rc
    /\ ct_why' = why
    /\ ct_pc' = "ret"

\* CreateEvent fails: return FALSE.
CT_NoEvent ==
    /\ dc_pc = "connect" /\ ct_pc = "idle"
    /\ ct_rc' = FALSE
    /\ ct_why' = "noevent"
    /\ ct_pc' = "ret"
    /\ UNCHANGED <<dcHist, hostname, openFds, closeLog, freeLog, abortEv, conn, readyEv, abortFirst,
                   dc_pc, settings, timeout, sockfd, lastError, resList, addr, multi, dcRet,
                   hEvent, hEventCloses>>

\* WSAEventSelect fails: goto fail.
CT_SelectFails ==
    /\ dc_pc = "connect" /\ ct_pc = "idle"
    /\ CT_Exit(FALSE, "select", 1)
    /\ UNCHANGED <<hostname, openFds, closeLog, freeLog, abortEv, conn, readyEv, abortFirst,
                   dc_pc, settings, timeout, sockfd, lastError, resList, addr, multi, dcRet>>

\* _connect fails at once with an error other than WSAEINPROGRESS/WSAEWOULDBLOCK.
CT_ConnectFails ==
    /\ dc_pc = "connect" /\ ct_pc = "idle"
    /\ \E o \in {"refused", "unreachable"} : conn' = o
    /\ CT_Exit(FALSE, "connect", 2)
    /\ UNCHANGED <<hostname, openFds, closeLog, freeLog, abortEv, readyEv, abortFirst,
                   dc_pc, settings, timeout, sockfd, lastError, resList, addr, multi, dcRet>>

\* _connect returns 0 (connected at once: the socket is ready) or fails with
\* WSAEINPROGRESS/WSAEWOULDBLOCK; either way the function goes on to wait.
CT_ConnectStarts ==
    /\ dc_pc = "connect" /\ ct_pc = "idle"
    /\ \E now \in BOOLEAN :
        /\ conn' = IF now THEN "established" ELSE "inprogress"
        /\ readyEv' = now
        /\ abortFirst' = (now /\ abortEv)
    /\ hEvent' = "open"
    /\ ct_pc' = "wait"
    /\ UNCHANGED <<dcHist, hostname, openFds, closeLog, freeLog, abortEv,
                   dc_pc, settings, timeout, sockfd, lastError, resList, addr, multi, dcRet,
                   hEventCloses, ct_rc, ct_why>>

\* WaitForMultipleObjects returns because a handle is signaled.
CT_WaitSignaled ==
    /\ ct_pc = "wait"
    /\ readyEv \/ abortEv
    /\ IF WaitForMultipleObjects(<<readyEv, abortEv>>) = 0
       THEN /\ ct_pc' = "probe"
            /\ UNCHANGED <<hEvent, hEventCloses, ct_rc, ct_why, dcHist>>
       ELSE CT_Exit(FALSE, "cancelled", 2)
    /\ UNCHANGED <<hostname, openFds, closeLog, freeLog, abortEv, conn, readyEv, abortFirst,
                   dc_pc, settings, timeout, sockfd, lastError, resList, addr, multi, dcRet>>

\* WaitForMultipleObjects returns WAIT_TIMEOUT: tout has passed with nothing signaled.
CT_WaitTimeout ==
    /\ ct_pc = "wait"
    /\ ~readyEv /\ ~abortEv
    /\ Tout(timeout) # INFINITE
    /\ CT_Exit(FALSE, "timed_out", 2)
    /\ UNCHANGED <<hostname, openFds, closeLog, freeLog, abortEv, conn, readyEv, abortFirst,
                   dc_pc, settings, timeout, sockfd, lastError, resList, addr, multi, dcRet>>

\* Lines 851-873: the reset probe, WSAEventSelect(.., 0), _ioctlsocket(FIONBIO).
CT_Probe ==
    /\ ct_pc = "probe"
    /\ IF ProbeFails(conn)
       THEN CT_Exit(FALSE, "reset", 2)
       ELSE \E why \in {"deselect", "ioctl", "ok"} : CT_Exit(why = "ok", why, 2)
    /\ UNCHANGED <<hostname, openFds, closeLog, freeLog, abortEv, conn, readyEv, abortFirst,
                   dc_pc, settings, timeout, sockfd, lastError, resList, addr, multi, dcRet>>

\* ------------------------------------------------ freerdp_tcp_connect_multi
\* The numbers 1..n in order.
IndexSeq(n) == [k \in 1..n |-> k]

\* Lines 923-935: the entry of a resolved list a socket is created for. When the
\* head is IPv6 and not alone, the first IPv4 entry after it, else the head.
MultiPick(res) ==
    IF res[1] = "AF_INET6" /\ Len(res) > 1
    THEN LET v4 == {k \in 2..Len(res) : res[k] = "AF_INET"}
         IN IF v4 = {} THEN 1 ELSE SetMin(v4)
    ELSE 1

\* The connect loop stops (break) at the first candidate whose connect succeeds.
FirstWinner_Last(winners) == CHOOSE x \in winners : \A y \in winners : y <= x

\* Lines 949-967: sindex is the lowest index whose connect succeeds.
FirstWinner(winners) == SetMin(winners)

\* The value the function returns: peers[sindex].s of the winner, else whatever
\* the connect loop last copied into sockfd.
MultiReturn(peers, sindex) ==
    IF sindex <= Len(peers) THEN peers[sindex].s ELSE peers[Len(peers)].s

\* The whole function on candidates cands (what resolving, socket() and connect()
\* answer for each), with open the descriptors open when it is called.
freerdp_tcp_connect_multi(cands, open) ==
    LET count == Len(cands)
        resolved(k) == cands[k].res # << >>
        made(k) == resolved(k) /\ cands[k].sockOk
        fd(k) == NthFree(open, Cardinality({j \in 1..k : made(j)}))
        \* first loop (911-947); calloc leaves an unresolved peer all zero
        peers == [k \in 1..count |->
                    IF ~resolved(k) THEN [s |-> 0, addr |-> 0, result |-> 0]
                    ELSE IF ~made(k) THEN [s |-> INVALID_SOCKET, addr |-> 0, result |-> 0]
                    ELSE [s |-> fd(k), addr |-> MultiPick(cands[k].res), result |-> 1]]
        nosock == SelectSeq(IndexSeq(count), LAMBDA k : resolved(k) /\ ~made(k))
        \* second loop (949-967)
        tried(k) == peers[k].s # INVALID_SOCKET /\ peers[k].addr # 0
        winners == {k \in 1..count : tried(k) /\ cands[k].connOk}
        sindex == IF winners = {} THEN count + 1 ELSE FirstWinner(winners)
        \* 969-975
        final == [k \in 1..count |->
                    IF k = sindex THEN [peers[k] EXCEPT !.s = INVALID_SOCKET] ELSE peers[k]]
        \* 977-978: peer_free of every peer
        toClose == SelectSeq(IndexSeq(count), LAMBDA k : final[k].s # INVALID_SOCKET)
    IN [called |-> TRUE,
        ret |-> MultiReturn(peers, sindex),
        won |-> sindex <= count,
        created |-> {fd(k) : k \in {j \in 1..count : made(j)}},
        closes |-> [j \in 1..Len(toClose) |-> final[toClose[j]].s],
        attempts |-> SelectSeq(IndexSeq(Min(sindex, count)), tried),
        frees |-> [j \in 1..Len(nosock) |-> [list |-> <<"cand", nosock[j]>>, from |-> 1]]
                  \o [k \in 1..count |-> [list |-> <<"cand", k>>, from |-> final[k].addr]]]

\* What a call that did m leaves behind in the process.
MultiEffects(m) ==
    /\ multi' = m
    /\ openFds' = (openFds \cup m.created) \ Range(m.closes)
    /\ closeLog' = closeLog \o m.closes
    /\ freeLog' = freeLog \o m.frees
    /\ lastError' = IF m.won THEN lastError ELSE "CONNECT_CANCELLED"

\* ------------------------------------------------------- get_next_addrinfo
\* const int family = (IPvX == 4) ? AF_INET : AF_INET6;
Family(IPvX) == IF IPvX = 4 THEN "AF_INET" ELSE "AF_INET6"

\* addr->ai_next (0 is NULL)
AiNext(list, a) == IF a < Len(list) THEN a + 1 ELSE 0

\* while (addr && (addr->ai_family != family)) addr = addr->ai_next;
ScanFamily(list, from, family) ==
    IF from = 0 THEN 0
    ELSE LET hit == {k \in from..Len(list) : list[k] = family}
         IN IF hit = {} THEN 0 ELSE SetMin(hit)

\* No fallback when the list has no IPv6 entry.
PreferFallback_None(found, input) == found

\* if (!addr) addr = input;
PreferFallback(found, input) == IF found = 0 THEN input ELSE found

\* The entry chosen starting at input (0 on failure, when the function returns -1,
\* records errorCode if no error is recorded and calls freeaddrinfo(input)).
get_next_addrinfo(list, input, st) ==
    LET preferred ==
            IF input # 0 /\ st.PreferIPv6OverIPv4
            THEN PreferFallback(ScanFamily(list, input, "AF_INET6"), input)
            ELSE input
    IN IF st.ForceIPvX \in {4, 6}
       THEN ScanFamily(list, preferred, Family(st.ForceIPvX))
       ELSE preferred

\* --------------------------------------------- freerdp_tcp_default_connect
\* return v;
DC_Return(v) ==
    /\ dc_pc' = "done"
    /\ dcRet' = v

\* if (!hostname) { record CONNECT_FAILED; return -1; }
DC_NullHostname ==
    /\ dc_pc = "idle"
    /\ lastError' = SetLastErrorIfNot("CONNECT_FAILED")
    /\ DC_Return(0 - 1)
    /\ hostname' = "null"
    /\ UNCHANGED <<dcHist, openFds, closeLog, freeLog, abortEv, conn, readyEv, abortFirst,
                   settings, timeout, sockfd, resList, addr, multi,
                   ct_pc, hEvent, hEventCloses, ct_rc, ct_why>>

\* hostname[0] == '/': sockfd = freerdp_uds_connect(hostname) (lines 736-762: its
\* socket() fails, or its connect fails and it closes the socket, or it connects).
DC_Uds ==
    /\ dc_pc = "idle"
    /\ hostname' = "uds"
    /\ \E o \in {"nosocket", "noconnect", "ok"} :
        /\ dcHist' = IF o = "nosocket" THEN dcHist
                      ELSE [dcHist EXCEPT !.made = Append(@, [fd |-> LowestFree(openFds),
                                                             at |-> Len(closeLog)])]
        /\ IF o = "ok"
           THEN /\ sockfd' = LowestFree(openFds)
                /\ openFds' = openFds \cup {LowestFree(openFds)}
                /\ dc_pc' = "post"
                /\ UNCHANGED <<closeLog, lastError, dcRet>>
           ELSE /\ sockfd' = 0 - 1
                /\ closeLog' = IF o = "noconnect"
                                THEN Append(closeLog, LowestFree(openFds)) ELSE closeLog
                /\ openFds' = openFds
                /\ lastError' = SetLastErrorIfNot("CONNECT_FAILED")
                /\ DC_Return(0 - 1)
    /\ UNCHANGED <<freeLog, abortEv, conn, readyEv, abortFirst, settings, timeout,
                   resList, addr, multi, ct_pc, hEvent, hEventCloses, ct_rc, ct_why>>

\* hostname[0] == '|': sockfd = port, a descriptor of the caller's, which is open
\* or is not.
DC_External ==
    /\ dc_pc = "idle"
    /\ hostname' = "external"
    /\ sockfd' = LowestFree(openFds)
    /\ \E valid \in BOOLEAN :
        openFds' = IF valid THEN openFds \cup {LowestFree(openFds)} ELSE openFds
    /\ dc_pc' = "post"
    /\ UNCHANGED <<dcHist, closeLog, freeLog, abortEv, conn, readyEv, abortFirst, settings, timeout,
                   lastError, resList, addr, multi, dcRet, ct_pc, hEvent, hEventCloses,
                   ct_rc, ct_why>>

\* utils_is_vsock(hostname): lines 1149-1189. Built without AF_VSOCK the function
\* returns -1 at once; built with it, socket() fails, or the CID does not parse,
\* or connect fails, or the socket connects.
DC_Vsock ==
    /\ dc_pc = "idle"
    /\ hostname' = "vsock"
    /\ \E o \in {"unsupported", "nosocket", "badcid", "noconnect", "ok"} :
        /\ sockfd' = IF o \in {"unsupported", "nosocket"}
                      THEN (IF o = "nosocket" THEN 0 - 1 ELSE sockfd)
                      ELSE LowestFree(openFds)
        /\ openFds' = IF o \in {"unsupported", "nosocket"}
                       THEN openFds ELSE openFds \cup {LowestFree(openFds)}
        /\ lastError' = IF o = "nosocket"
                         THEN SetLastErrorIfNot("CONNECT_FAILED") ELSE lastError
        /\ dcHist' = IF o \in {"unsupported", "nosocket"} THEN dcHist
                      ELSE [dcHist EXCEPT !.made = Append(@, [fd |-> LowestFree(openFds),
                                                             at |-> Len(closeLog)])]
        /\ IF o = "ok"
           THEN dc_pc' = "post" /\ dcRet' = dcRet
           ELSE DC_Return(0 - 1)
    /\ UNCHANGED <<closeLog, freeLog, abortEv, conn, readyEv, abortFirst, settings, timeout,
                   resList, addr, multi, ct_pc, hEvent, hEventCloses, ct_rc, ct_why>>

\* A host name: lines 1193-1210 up to the choice between the multi-target connect
\* and the standard resolution. freerdp_tcp_is_hostname_resolvable (789-803) is
\* called only without a gateway.
DC_Hostname ==
    /\ dc_pc = "idle"
    /\ \E st \in SettingsSet, t \in Timeouts, resolvable \in BOOLEAN :
        /\ settings' = st
        /\ timeout' = t
        /\ IF st.GatewayEnabled
           THEN /\ resolvable
                /\ dc_pc' = "resolve"
                /\ UNCHANGED <<lastError, freeLog>>
           ELSE /\ lastError' = IF resolvable THEN FREERDP_ERROR_SUCCESS
                                ELSE SetLastErrorIfNot("DNS_NAME_NOT_FOUND")
                /\ freeLog' = IF resolvable
                              THEN Append(freeLog, [list |-> <<"probe", 0>>, from |-> 1])
                              ELSE freeLog
                /\ dc_pc' = IF (~resolvable \/ st.RemoteAssistanceMode)
                               /\ st.TargetNetAddressCount > 0
                            THEN "multi" ELSE "resolve"
    /\ sockfd' = 0 - 1
    /\ hostname' = "host"
    /\ UNCHANGED <<dcHist, openFds, closeLog, abortEv, conn, readyEv, abortFirst,
                   resList, addr, multi, dcRet, ct_pc, hEvent, hEventCloses, ct_rc, ct_why>>

\* sockfd = freerdp_tcp_connect_multi(...); then the test of line 1212.
DC_Multi ==
    /\ dc_pc = "multi"
    /\ \E cands \in [1..settings.TargetNetAddressCount -> Candidates] :
        LET m == freerdp_tcp_connect_multi(cands, openFds)
        IN /\ MultiEffects(m)
           /\ sockfd' = m.ret
           /\ dc_pc' = IF m.ret <= 0 THEN "resolve" ELSE "post"
    /\ UNCHANGED <<dcHist, hostname, abortEv, conn, readyEv, abortFirst, settings, timeout, resList, addr,
                   dcRet, ct_pc, hEvent, hEventCloses, ct_rc, ct_why>>

\* Lines 1218-1236: resolve the host and choose the first entry.
DC_Resolve ==
    /\ dc_pc = "resolve"
    /\ \E list \in HostLists \cup {<< >>} :
        IF list = << >>
        THEN /\ lastError' = SetLastErrorIfNot("DNS_NAME_NOT_FOUND")
             /\ DC_Return(0 - 1)
             /\ UNCHANGED <<resList, addr, freeLog>>
        ELSE LET a == get_next_addrinfo(list, 1, settings)
             IN /\ resList' = list
                /\ IF a = 0
                   THEN /\ lastError' = "DNS_NAME_NOT_FOUND"
                        /\ freeLog' = Append(freeLog, [list |-> <<"host", 0>>, from |-> 1])
                        /\ DC_Return(0 - 1)
                        /\ addr' = addr
                   ELSE /\ lastError' = FREERDP_ERROR_SUCCESS
                        /\ addr' = a
                        /\ dc_pc' = "socket"
                        /\ UNCHANGED <<freeLog, dcRet>>
    /\ UNCHANGED <<dcHist, hostname, openFds, closeLog, abortEv, conn, readyEv, abortFirst,
                   settings, timeout, sockfd, multi, ct_pc, hEvent, hEventCloses, ct_rc,
                   ct_why>>

\* One round of the do-while of lines 1238-1248.
DC_Socket ==
    /\ dc_pc = "socket"
    /\ \E ok \in BOOLEAN :
        /\ dcHist' = [dcHist EXCEPT
               !.tried = Append(@, addr),
               !.made = IF ok THEN Append(@, [fd |-> LowestFree(openFds),
                                              at |-> Len(closeLog)])
                        ELSE @]
        /\ IF ok
           THEN /\ sockfd' = LowestFree(openFds)
                /\ openFds' = openFds \cup {LowestFree(openFds)}
                /\ dc_pc' = "connect"
                /\ UNCHANGED <<addr, lastError, freeLog, dcRet>>
           ELSE LET a == get_next_addrinfo(resList, AiNext(resList, addr), settings)
                IN /\ sockfd' = 0 - 1
                   /\ UNCHANGED openFds
                   /\ IF a = 0
                      THEN /\ lastError' = SetLastErrorIfNot("CONNECT_FAILED")
                           /\ freeLog' = Append(freeLog, [list |-> <<"host", 0>>,
                                                         from |-> AiNext(resList, addr)])
                           /\ DC_Return(0 - 1)
                           /\ addr' = addr
                      ELSE /\ addr' = a
                           /\ UNCHANGED <<lastError, freeLog, dc_pc, dcRet>>
    /\ UNCHANGED <<hostname, closeLog, abortEv, conn, readyEv, abortFirst, settings, timeout, resList,
                   multi, ct_pc, hEvent, hEventCloses, ct_rc, ct_why>>

\* Lines 1257-1269: freerdp_tcp_connect_timeout has returned.
DC_Connected ==
    /\ dc_pc = "connect"
    /\ ct_pc = "ret"
    /\ freeLog' = Append(freeLog, [list |-> <<"host", 0>>, from |-> 1])
    /\ IF ct_rc
       THEN /\ dc_pc' = "post"
            /\ UNCHANGED <<openFds, closeLog, lastError, dcRet>>
       ELSE /\ Close(sockfd)
            /\ lastError' = SetLastErrorIfNot("CONNECT_FAILED")
            /\ DC_Return(0 - 1)
    /\ UNCHANGED <<dcHist, hostname, abortEv, conn, readyEv, abortFirst, settings, timeout, sockfd,
                   resList, addr, multi, ct_pc, hEvent, hEventCloses, ct_rc, ct_why>>

\* Lines 1273-1330: the local address (skipped for VSOCK; getsockname fails on a
\* descriptor that is not open, and the socket is then closed unless it is the
\* caller's), TCP_NODELAY, the receive buffer (getsockopt fails on a descriptor
\* that is not open, and nothing is resized then), keep-alive (always TRUE).
DC_Configure ==
    /\ dc_pc = "post"
    /\ \E o \in {"noaddress", "rcvbuf", "ok"} :
        /\ (o = "noaddress") => hostname # "vsock"
        /\ (sockfd \notin openFds /\ hostname # "vsock") => (o = "noaddress")
        /\ (o = "rcvbuf") => sockfd \in openFds
        /\ IF o = "ok"
           THEN /\ dc_pc' = "abortcheck"
                /\ UNCHANGED <<openFds, closeLog, lastError, dcRet>>
           ELSE /\ IF o = "noaddress" /\ hostname = "external"
                   THEN UNCHANGED <<openFds, closeLog>>
                   ELSE Close(sockfd)
                /\ lastError' = SetLastErrorIfNot("CONNECT_FAILED")
                /\ DC_Return(0 - 1)
    /\ UNCHANGED <<dcHist, hostname, freeLog, abortEv, conn, readyEv, abortFirst, settings, timeout,
                   sockfd, resList, addr, multi, ct_pc, hEvent, hEventCloses, ct_rc, ct_why>>

\* The abort event is not looked at.
AbortSeen_Never(ev) == FALSE

\* WaitForSingleObject(utils_get_abort_event(context->rdp), 0) == WAIT_OBJECT_0
AbortSeen(ev) == ev

\* Lines 1332-1338: the last look at the abort event.
DC_AbortCheck ==
    /\ dc_pc = "abortcheck"
    /\ IF AbortSeen(abortEv)
       THEN /\ Close(sockfd)
            /\ DC_Return(0 - 1)
       ELSE /\ DC_Return(sockfd)
            /\ UNCHANGED <<openFds, closeLog>>
    /\ UNCHANGED <<dcHist, hostname, freeLog, abortEv, conn, readyEv, abortFirst, settings, timeout,
                   sockfd, lastError, resList, addr, multi, ct_pc, hEvent, hEventCloses,
                   ct_rc, ct_why>>

\* The steps of the calling thread.
ConnStep ==
    \/ DC_NullHostname
    \/ DC_Uds
    \/ DC_External
    \/ DC_Vsock
    \/ DC_Hostname
    \/ DC_Multi
    \/ DC_Resolve
    \/ DC_Socket
    \/ CT_NoEvent
    \/ CT_SelectFails
    \/ CT_ConnectFails
    \/ CT_ConnectStarts
    \/ CT_WaitSignaled
    \/ CT_WaitTimeout
    \/ CT_Probe
    \/ DC_Connected
    \/ DC_Configure
    \/ DC_AbortCheck

\* The calling thread, and what happens around it.
ConnNext ==
    \/ DC_NullHostname /\ UNCHANGED notConn
    \/ DC_Uds /\ UNCHANGED notConn
    \/ DC_External /\ UNCHANGED notConn
    \/ DC_Vsock /\ UNCHANGED notConn
    \/ DC_Hostname /\ UNCHANGED notConn
    \/ DC_Multi /\ UNCHANGED notConn
    \/ DC_Resolve /\ UNCHANGED notConn
    \/ DC_Socket /\ UNCHANGED notConn
    \/ CT_NoEvent /\ UNCHANGED notConn
    \/ CT_SelectFails /\ UNCHANGED notConn
    \/ CT_ConnectFails /\ UNCHANGED notConn
    \/ CT_ConnectStarts /\ UNCHANGED notConn
    \/ CT_WaitSignaled /\ UNCHANGED notConn
    \/ CT_WaitTimeout /\ UNCHANGED notConn
    \/ CT_Probe /\ UNCHANGED notConn
    \/ DC_Connected /\ UNCHANGED notConn
    \/ DC_Configure /\ UNCHANGED notConn
    \/ DC_AbortCheck /\ UNCHANGED notConn
    \/ AbortSignal /\ UNCHANGED notConn
    \/ ConnectCompletes /\ UNCHANGED notConn
    \/ PeerResets /\ UNCHANGED notConn

ConnSpec == Init /\ [][ConnNext]_vars

\* The calling thread runs on: a step it can take is taken, and a timed wait
\* with nothing signaled ends when the time is up.
FairConnSpec == ConnSpec /\ WF_vars(ConnStep /\ UNCHANGED notConn)

\* ------------------------------------------- functions called on their own
\* The descriptors open when a function is called: the standard streams, and
\* possibly one more.
OpenSets == {{0, 1, 2}, {0, 1, 2, 3}}

\* The settings get_next_addrinfo reads.
FamilySettings ==
    {[NoSettings EXCEPT !.PreferIPv6OverIPv4 = p, !.ForceIPvX = f] :
        p \in BOOLEAN, f \in {0, 4, 6}}

\* freerdp_tcp_connect_multi on 1..MaxCands candidates.
MultiCalls ==
    {[NoFn EXCEPT !.op = "connect_multi", !.cands = c, !.done = FALSE] :
        c \in UNION {[1..n -> Candidates] : n \in 1..MaxCands}}

\* get_next_addrinfo with the error code of either call site.
FamilyCalls ==
    {[NoFn EXCEPT !.op = "get_next_addrinfo", !.errorCode = e, !.done = FALSE] :
        e \in {"DNS_NAME_NOT_FOUND", "CONNECT_FAILED"}}

\* One function is about to be called, in a process that has done nothing else.
FnInit ==
    /\ BufInit
    /\ IoInit
    /\ openFds \in OpenSets
    /\ \/ /\ \E c \in MultiCalls : fn = [c EXCEPT !.open = openFds]
          /\ settings = NoSettings
          /\ resList = << >>
          /\ addr = 0
          /\ lastError = FREERDP_ERROR_SUCCESS
       \/ /\ resList \in ResLists
          /\ settings \in FamilySettings
          /\ addr \in 0..Len(resList)
          /\ \E c \in FamilyCalls : fn = [c EXCEPT !.open = openFds, !.input = addr]
          /\ lastError \in {FREERDP_ERROR_SUCCESS, "CONNECT_CANCELLED"}
    /\ closeLog = << >>
    /\ freeLog = << >>
    /\ abortEv = FALSE
    /\ conn = "none"
    /\ readyEv = FALSE
    /\ abortFirst = FALSE
    /\ dc_pc = "idle"
    /\ hostname = "none"
    /\ timeout = 0
    /\ sockfd = 0
    /\ multi = NoMulti
    /\ dcRet = 0
    /\ ct_pc = "idle"
    /\ hEvent = "none"
    /\ hEventCloses = 0
    /\ ct_rc = FALSE
    /\ ct_why = "none"
    /\ dcHist = NoHist

\* sockfd = freerdp_tcp_connect_multi(context, hostnames, ports, count, port, timeout)
MultiCall ==
    /\ fn.op = "connect_multi"
    /\ ~fn.done
    /\ LET m == freerdp_tcp_connect_multi(fn.cands, openFds)
       IN /\ MultiEffects(m)
          /\ fn' = [fn EXCEPT !.done = TRUE, !.rc = m.ret]
    /\ UNCHANGED <<dcHist, hostname, abortEv, conn, readyEv, abortFirst, dc_pc, settings, timeout, sockfd,
                   resList, addr, dcRet, ct_pc, hEvent, hEventCloses, ct_rc, ct_why>>

\* rc = get_next_addrinfo(context, input, &addr, errorCode)
FamilyCall ==
    /\ fn.op = "get_next_addrinfo"
    /\ ~fn.done
    /\ LET a == get_next_addrinfo(resList, fn.input, settings)
       IN IF a = 0
          THEN /\ lastError' = SetLastErrorIfNot(fn.errorCode)
               /\ freeLog' = Append(freeLog, [list |-> <<"host", 0>>, from |-> fn.input])
               /\ fn' = [fn EXCEPT !.done = TRUE, !.rc = 0 - 1]
               /\ addr' = addr
          ELSE /\ addr' = a
               /\ fn' = [fn EXCEPT !.done = TRUE, !.rc = 0]
               /\ UNCHANGED <<lastError, freeLog>>
    /\ UNCHANGED <<dcHist, hostname, openFds, closeLog, abortEv, conn, readyEv, abortFirst, dc_pc, settings,
                   timeout, sockfd, resList, multi, dcRet, ct_pc, hEvent, hEventCloses,
                   ct_rc, ct_why>>

FnNext ==
    \/ MultiCall /\ UNCHANGED notFn
    \/ FamilyCall /\ UNCHANGED notFn

FnSpec == FnInit /\ [][FnNext]_vars

\* ============================== simple socket BIO and TCP transport layer
\* WSACreateEvent returns a handle that no earlier call returned.
NewHandle(y) == y.evMade + 1

\* The system after WSACreateEvent succeeded.
WSACreateEvent(y) == [y EXCEPT !.events = @ \cup {NewHandle(y)}, !.evMade = @ + 1]

\* closesocket(fd). The log keeps whether the descriptor was open, who closed it
\* and, for the BIO, which of the sockets handed to it this is (0: none of them).
CloseSocket(y, fd, by, sock) ==
    [y EXCEPT !.fds = @ \ {fd},
              !.sockCloses = Append(@, [fd |-> fd, open |-> fd \in y.fds, by |-> by,
                                        sock |-> sock])]

\* CloseHandle(h)
CloseHandle(y, h, by) ==
    [y EXCEPT !.events = @ \ {h},
              !.evCloses = Append(@, [h |-> h, open |-> h \in y.events, by |-> by])]

\* Which of the sockets handed to the BIO the descriptor fd is: the latest one
\* with this descriptor, 0 when there is none.
SockNo(handed, fd) ==
    LET at == {k \in DOMAIN handed : handed[k] = fd}
    IN IF at = {} THEN 0 ELSE CHOOSE k \in at : \A m \in at : m <= k

\* The errors after which an operation is to be retried.
Transient(error) ==
    error \in {"WSAEWOULDBLOCK", "WSAEINTR", "WSAEINPROGRESS", "WSAEALREADY"}

\* What _recv answers: bytes, 0 bytes, or -1 with an error.
RecvOutcomes ==
    {[status |-> 1, error |-> "none"], [status |-> 0, error |-> "none"]}
    \cup {[status |-> 0 - 1, error |-> e] : e \in {"WSAEWOULDBLOCK", "WSAEINTR", "WSAECONNRESET"}}

\* WSAGetLastError() after _recv answered r: a call that does not fail leaves the
\* thread's last error as it was.
LastErrorAfter(r, before) == IF r.status < 0 THEN r.error ELSE before

\* ------------------------------------------------------ simple socket BIO
\* The socket is closed whenever the close flag is set.
SocketOwned_Always(bio) == bio.shutdown

\* if (BIO_get_shutdown(bio)) { if (BIO_get_init(bio) && ptr)
SocketOwned(bio) == bio.shutdown /\ bio.init

\* transport_bio_simple_uninit: the BIO and the system after it. handed is the
\* history of sockets handed to the BIO.
\* BIO_set_flags(bio, 0) ORs nothing into the flags.
transport_bio_simple_uninit(bio, y, handed) ==
    LET y1 == IF SocketOwned(bio)
              THEN CloseSocket(y, bio.socket, "bio", SockNo(handed, bio.socket))
              ELSE y
        y2 == IF bio.hEvent # 0 THEN CloseHandle(y1, bio.hEvent, "bio") ELSE y1
    IN <<[bio EXCEPT !.socket = IF SocketOwned(bio) THEN 0 ELSE @,
                   !.hEvent = 0,
                   !.init = FALSE],
         y2>>

\* transport_bio_simple_init: evOk is whether WSACreateEvent succeeds. A failing
\* WSAEventSelect changes the return value only.
transport_bio_simple_init(bio, y, socket, shutdown, evOk) ==
    <<[bio EXCEPT !.socket = socket,
                !.shutdown = shutdown,
                !.flags = @ \cup {"SHOULD_RETRY"},
                !.init = TRUE,
                !.hEvent = IF evOk THEN NewHandle(y) ELSE 0],
      IF evOk THEN WSACreateEvent(y) ELSE y>>

\* BIO_new, which sets the close flag of the new BIO, and transport_bio_simple_new.
SB_New ==
    /\ sb.stage = "none"
    /\ \E shutdown \in BOOLEAN :
        sb' = [NoBio EXCEPT !.stage = "live", !.shutdown = shutdown,
                            !.flags = {"SHOULD_RETRY"}]
    /\ UNCHANGED <<tl, os, wsaError, lastRead, ioCalls>>

\* BIO_C_SET_SOCKET, and BIO_C_SET_FD with a descriptor: uninit, then init with a
\* socket the caller has just created.
SB_SetSocket ==
    /\ sb.stage = "live"
    /\ Len(ioCalls.handed) < MaxSets
    /\ \E shutdown \in BOOLEAN, evOk \in BOOLEAN :
        LET socket == LowestFree(os.fds)
            u == transport_bio_simple_uninit(sb, [os EXCEPT !.fds = @ \cup {socket}],
                                             ioCalls.handed)
            n == transport_bio_simple_init(u[1], u[2], socket, shutdown, evOk)
        IN /\ sb' = n[1]
           /\ os' = n[2]
           /\ ioCalls' = [ioCalls EXCEPT
                  !.handed = Append(@, socket),
                  !.bioEvents = IF evOk THEN @ \cup {n[1].hEvent} ELSE @]
    /\ UNCHANGED <<tl, wsaError, lastRead>>

\* transport_bio_simple_free
SB_Free ==
    /\ sb.stage = "live"
    /\ LET u == transport_bio_simple_uninit(sb, os, ioCalls.handed)
       IN /\ sb' = [u[1] EXCEPT !.stage = "freed"]
          /\ os' = u[2]
    /\ UNCHANGED <<tl, wsaError, lastRead, ioCalls>>

\* transport_bio_simple_read with a buffer, on an initialised BIO whose socket is
\* open.
SB_Read ==
    /\ sb.stage = "live"
    /\ sb.init
    /\ sb.socket \in os.fds
    /\ \E r \in RecvOutcomes :
        LET error == LastErrorAfter(r, wsaError)
            flags == IF r.status > 0 THEN sb.flags \ {"READ"}
                     ELSE IF r.status = 0 THEN sb.flags \ {"READ", "SHOULD_RETRY"}
                     ELSE IF Transient(error) THEN sb.flags \cup {"READ", "SHOULD_RETRY"}
                     ELSE sb.flags \ {"READ", "SHOULD_RETRY"}
        IN /\ sb' = [sb EXCEPT !.flags = flags]
           /\ wsaError' = error
           /\ lastRead' = [by |-> "bio", status |-> r.status, stale |-> wsaError,
                           ret |-> IF r.status >= 0 THEN r.status ELSE 0 - 1,
                           retry |-> "SHOULD_RETRY" \in flags, eagain |-> FALSE]
    /\ UNCHANGED <<tl, os, ioCalls>>

\* --------------------------------------------------- TCP transport layer
\* The socket and the handle are closed whenever they are set.
freerdp_tcp_layer_close(t, y) ==
    LET y1 == IF t.sockfd >= 0 THEN CloseSocket(y, t.sockfd, "layer", 0) ELSE y
    IN IF t.hEvent # 0 THEN CloseHandle(y1, t.hEvent, "layer") ELSE y1

\* transport_layer_free(layer): the layer's Close is called on its context.
transport_layer_free(t, y) == freerdp_tcp_layer_close(t, y)

\* freerdp_tcp_connect_layer: the connect fails; or the layer cannot be allocated;
\* or no event can be created; or WSAEventSelect fails; or the layer is built.
TL_Connect ==
    /\ tl.stage = "none"
    /\ \E o \in {"noconnect", "nolayer", "noevent", "noselect", "ok"} :
        LET fd == LowestFree(os.fds)
            y0 == [os EXCEPT !.fds = @ \cup {fd}]
            h == NewHandle(os)
            y1 == WSACreateEvent(y0)
        IN CASE o = "noconnect" ->
                  /\ tl' = [tl EXCEPT !.stage = "failed"]
                  /\ os' = os
             [] o = "nolayer" ->
                  /\ tl' = [tl EXCEPT !.stage = "failed"]
                  /\ os' = CloseSocket(y0, fd, "connect", 0)
             [] o = "noevent" ->
                  /\ tl' = [tl EXCEPT !.stage = "failed"]
                  /\ os' = transport_layer_free(NoLayer, CloseSocket(y0, fd, "connect", 0))
             [] o = "noselect" ->
                  /\ tl' = [stage |-> "failed", sockfd |-> 0 - 1, hEvent |-> h]
                  /\ os' = transport_layer_free([NoLayer EXCEPT !.hEvent = h],
                                                CloseSocket(y1, fd, "connect", 0))
             [] o = "ok" ->
                  /\ tl' = [stage |-> "live", sockfd |-> fd, hEvent |-> h]
                  /\ os' = y1
    /\ UNCHANGED <<sb, wsaError, lastRead, ioCalls>>

\* layer->Close(userContext)
TL_Close ==
    /\ tl.stage = "live"
    /\ ioCalls.closes < MaxCloses
    /\ os' = freerdp_tcp_layer_close(tl, os)
    /\ ioCalls' = [ioCalls EXCEPT !.closes = @ + 1]
    /\ UNCHANGED <<sb, tl, wsaError, lastRead>>

\* freerdp_tcp_layer_read with a buffer and bytes > 0, on a layer whose socket is
\* open.
TL_Read ==
    /\ tl.stage = "live"
    /\ tl.sockfd \in os.fds
    /\ \E r \in RecvOutcomes :
        LET error == LastErrorAfter(r, wsaError)
        IN /\ wsaError' = error
           /\ lastRead' = [by |-> "layer", status |-> r.status, stale |-> wsaError,
                           ret |-> r.status, retry |-> FALSE,
                           eagain |-> (r.status <= 0 /\ Transient(error))]
    /\ UNCHANGED <<sb, tl, os, ioCalls>>

IoNext ==
    \/ SB_New /\ UNCHANGED notIo
    \/ SB_SetSocket /\ UNCHANGED notIo
    \/ SB_Free /\ UNCHANGED notIo
    \/ SB_Read /\ UNCHANGED notIo
    \/ TL_Connect /\ UNCHANGED notIo
    \/ TL_Close /\ UNCHANGED notIo
    \/ TL_Read /\ UNCHANGED notIo

IoSpec == Init /\ [][IoNext]_vars

\* ---------------------------------------------- freerdp_tcp_layer_wait
\* What poll (or select) answers when it is not interrupted: the requested event;
\* another event on the descriptor (POLLERR, POLLHUP, POLLNVAL); nothing within
\* the timeout; or a failure other than EINTR.
PollOutcomes == {"ready", "other", "timeout", "error"}

\* The return value of poll for an outcome.
PollStatus(outcome) ==
    CASE outcome = "ready" -> 1
      [] outcome = "other" -> 1
      [] outcome = "timeout" -> 0
      [] outcome = "error" -> 0 - 1

\* return status != 0;
WaitResult(status) == status # 0

\* freerdp_tcp_layer_wait: poll is called again while it fails with EINTR, each
\* time with the whole timeout; (int)INFINITE is -1, which never times out.
TL_Wait ==
    /\ tl.stage = "live"
    /\ \E waitWrite \in BOOLEAN, t \in Timeouts, intr \in 0..MaxIntr, o \in PollOutcomes :
        /\ (o = "timeout") => (t # INFINITE)
        /\ lastWait' = [called |-> TRUE, waitWrite |-> waitWrite, timeout |-> t,
                        polls |-> intr + 1, outcome |-> o,
                        ret |-> WaitResult(PollStatus(o))]
    /\ UNCHANGED ioVars

WaitNext ==
    \/ TL_Connect /\ UNCHANGED notIo
    \/ TL_Close /\ UNCHANGED notIo
    \/ TL_Wait /\ UNCHANGED notWait

WaitSpec == Init /\ [][WaitNext]_vars

\* The caller keeps calling (flush is retried) and a started call runs on.
FairSpec ==
    /\ Spec
    /\ WF_vars(DrainAccept /\ UNCHANGED notBuf)
    /\ WF_vars(DrainWouldBlock /\ UNCHANGED notBuf)
    /\ WF_vars(DrainFatal /\ UNCHANGED notBuf)
    /\ WF_vars(FlushCall /\ UNCHANGED notBuf)

\* One round of the while loop of lines 490-519, whatever BIO_write answers.
DrainStep ==
    \/ DrainAccept
    \/ DrainWouldBlock
    \/ DrainFatal
    \/ DrainRetryOther

\* The thread inside transport_bio_buffered_write keeps running: whenever the
\* loop can go round again and again, it does. Nothing is assumed of the next BIO.
RunSpec == Spec /\ SF_vars(DrainStep /\ UNCHANGED notBuf)

\* ------------------------------------------------------------------ claims
\* The bytes of the chunks the drain has still to offer, in order.
Remaining == IF i = 1 THEN chunks[1] \o chunks[2] ELSE IF i = 2 THEN chunks[2] ELSE << >>

\* C1 (as amended): the bytes the next BIO has accepted are always a prefix of the
\* concatenation, in call order, of the bytes of the writes whose append to the
\* ring buffer succeeded, so no byte is duplicated, reordered or skipped; and if
\* the next BIO from some point on always accepts, then again and again every
\* such byte has been accepted.
C1_InOrderDelivery ==
    /\ [](IsPrefix(accepted, queued))
    /\ (<>[](nextBio = "ready")) => []<>(accepted = queued)

\* C1 witness: a flush found at least two bytes queued (the stream had blocked)
\* and drained them all, so everything queued has been accepted.
C1_Witness ==
    /\ call.op = "flush" /\ call.done /\ call.pendBefore >= 2
    /\ accepted = queued /\ xmitBuffer = << >> /\ Len(accepted) >= 3

\* C1 (original statement): the accepted bytes are a prefix of the concatenation
\* of all bytes submitted to write.
C1_Original == IsPrefix(accepted, submitted)

\* C2: a write of n >= 0 bytes returns n or -1, and when it returns n every one
\* of its bytes has been accepted by the next BIO or is in the ring buffer.
C2_WriteAllOrNothing ==
    (call.op = "write" /\ call.done /\ call.num >= 0) =>
        /\ call.result \in {call.num, 0 - 1}
        /\ (call.result = call.num) =>
              \A b \in Range(call.buf) : b \in Range(accepted) \cup Range(xmitBuffer)

\* C2 witness: a two byte write returned 2 with one byte accepted and one queued.
C2_Witness ==
    /\ call.op = "write" /\ call.done /\ call.num = 2 /\ call.result = 2
    /\ call.buf[1] \in Range(accepted)
    /\ call.buf[2] \in Range(xmitBuffer)

\* C3: when the next BIO reports would-block during the drain, the call ends
\* there: the ring buffer holds exactly the bytes not yet accepted, writeBlocked
\* is TRUE and the call reports success (write: num, flush: 1).
C3_WouldBlockIsSuccess ==
    (call.done /\ call.blocked) =>
        /\ accepted \o xmitBuffer = queued
        /\ xmitBuffer # << >>
        /\ writeBlocked = TRUE
        /\ "WRITE" \in bioFlags
        /\ call.result = (IF call.op = "flush" THEN 1 ELSE call.num)

\* C3 witness: a write was partly accepted and then hit would-block.
C3_Witness ==
    /\ call.op = "write" /\ call.done /\ call.blocked
    /\ Len(accepted) > call.accBefore
    /\ call.num > 0

\* C4 (as amended): when the next BIO reports a fatal error during the drain,
\* the call reports failure (-1) and the ring buffer keeps exactly the bytes not
\* yet accepted (at least one); a later flush offers these bytes again, from the
\* first one not accepted.
C4_FatalKeepsRemainder ==
    /\ (call.done /\ call.fatal) =>
          /\ call.result = 0 - 1
          /\ xmitBuffer # << >>
          /\ accepted \o xmitBuffer = queued
          /\ WPending = call.pendBefore + call.appended - (Len(accepted) - call.accBefore)
    /\ (call.op = "flush" /\ call.afterFatal /\ ~call.done) =>
          /\ bw_pc = "drain"
          /\ Remaining # << >>
          /\ accepted \o Remaining = queued

\* C4 witness: a write was partly accepted, then the stream failed for good.
C4_Witness ==
    /\ call.op = "write" /\ call.done /\ call.fatal
    /\ Len(accepted) > call.accBefore
    /\ Len(xmitBuffer) >= 2

\* C4 (original statement): after a fatal failure during the drain the call
\* returns -1 and pending_bytes is 0.
C4_Original ==
    (call.done /\ call.fatal) => (call.result = 0 - 1 /\ WPending = 0)

\* C5: after every write or flush, pending_bytes = pending before + bytes
\* appended - bytes the next BIO accepted during the call; and a drain always
\* continues at the first byte not yet accepted.
C5_PendingAccounting ==
    /\ (call.done /\ call.op # "none") =>
          WPending = call.pendBefore + call.appended - (Len(accepted) - call.accBefore)
    /\ (bw_pc = "drain") => (Remaining # << >> /\ accepted \o Remaining = queued)
    /\ (bw_pc = "idle") => accepted \o xmitBuffer = queued

\* C5 witness: a call that appended to a non-empty queue, had part of the queue
\* accepted and left part of it queued.
C5_Witness ==
    /\ call.done /\ call.op = "write"
    /\ call.pendBefore >= 1 /\ call.appended >= 1
    /\ Len(accepted) - call.accBefore >= 1
    /\ WPending >= 1

\* C6: flush appends nothing and returns 1 or -1: 1 exactly when afterwards the
\* ring buffer is empty or the next BIO reported would-block, -1 exactly when
\* the next BIO reported a fatal error during the drain.
C6_FlushResult ==
    (call.op = "flush" /\ call.done) =>
        /\ call.appended = 0
        /\ WPending <= call.pendBefore
        /\ call.result \in {1, 0 - 1}
        /\ (call.result = 1) <=> (WPending = 0 \/ call.blocked)
        /\ (call.result = 0 - 1) <=> call.fatal

\* C6 witness: a flush drained part of the queue, hit would-block and returned 1.
C6_Witness ==
    /\ call.op = "flush" /\ call.done /\ call.blocked /\ call.result = 1
    /\ Len(accepted) > call.accBefore

\* C7: when the abort event is already signaled before connect-readiness fires,
\* freerdp_tcp_connect_timeout returns failure, never success, however the
\* completion of the connect is timed relative to the wait. abortFirst records
\* that the abort event was signaled at the moment readiness fired.
C7_Original == (ct_pc = "ret" /\ abortFirst) => ~ct_rc

\* The wait has ended with nothing signaled and the caller has returned.
TimedOutAndClosed ==
    /\ dc_pc = "done"
    /\ ct_why = "timed_out"
    /\ ~ct_rc
    /\ dcRet = 0 - 1
    /\ sockfd \notin openFds
    /\ closeLog # << >>
    /\ closeLog[Len(closeLog)] = sockfd

\* C8: for a timeout that is positive and not the largest UINT32, when neither
\* connect-readiness nor the abort event fires during the wait, freerdp_tcp_connect_timeout
\* eventually returns failure because the time is up, and the socket is closed
\* when freerdp_tcp_default_connect returns; and the wait never ends as timed
\* out for another timeout, nor with success, nor with the socket left open.
C8_TimeoutFails ==
    /\ [](ct_why = "timed_out" => (timeout \in 1..(INFINITE - 1) /\ ~ct_rc))
    /\ []((dc_pc = "done" /\ ct_why = "timed_out") => TimedOutAndClosed)
    /\ ([](ct_pc = "wait" => ~(readyEv \/ abortEv)))
         => []((ct_pc = "wait" /\ timeout \in 1..(INFINITE - 1)) => <>TimedOutAndClosed)

\* A wait that timed out, after which the caller closed the socket and returned -1.
C8_Witness == TimedOutAndClosed /\ timeout \in 1..(INFINITE - 1) /\ ~readyEv /\ ~abortEv

\* C8 as stated, for every timeout, 0 included.
C8_Original ==
    ([](ct_pc = "wait" => ~(readyEv \/ abortEv))) => [](ct_pc = "wait" => <>TimedOutAndClosed)

\* C9: freerdp_tcp_connect_timeout returns success only when the connection is
\* established, whether a refused, unreachable or reset connect is reported by the
\* connect call itself or only after connect-readiness has fired.
C9_Original == (ct_pc = "ret" /\ ct_rc) => conn = "established"

\* C10: freerdp_tcp_connect_multi returns an open socket exactly when some
\* candidate's connect succeeded, and a value that is not positive otherwise, so
\* that freerdp_tcp_default_connect never goes on with a socket that is closed.
C10_Original ==
    /\ (multi.called /\ multi.won) => (multi.ret > 0 /\ multi.ret \notin Range(multi.closes))
    /\ (multi.called /\ ~multi.won) => multi.ret <= 0
    /\ (multi.called /\ dc_pc = "post") => sockfd \in openFds

\* freerdp_tcp_connect_multi, called on its own, has returned.
MultiReturned == fn.op = "connect_multi" /\ fn.done

\* Candidate k resolved and got a socket.
CandMade(k) == fn.cands[k].res # << >> /\ fn.cands[k].sockOk

\* The socket of candidate k: sockets are created in candidate order.
CandSock(k) == NthFree(fn.open, Cardinality({j \in 1..k : CandMade(j)}))

\* The connect of candidate k succeeds if it is attempted.
CandConnects(k) == CandMade(k) /\ fn.cands[k].connOk

\* The lowest candidate that can connect, the number of candidates if none can.
LastAttempted ==
    LET ok == {k \in 1..Len(fn.cands) : CandConnects(k)}
    IN IF ok = {} THEN Len(fn.cands) ELSE SetMin(ok)

\* C11: freerdp_tcp_connect_multi attempts the connects in candidate order, on
\* every candidate that has a socket up to the lowest one whose connect succeeds
\* and on none after it; it returns that candidate's socket, still open, and
\* the socket of every later candidate is closed even if it could have connected.
C11_FirstInOrderWins ==
    MultiReturned =>
        /\ multi.attempts = SelectSeq(IndexSeq(LastAttempted), CandMade)
        /\ CandConnects(LastAttempted) =>
              (multi.won /\ fn.rc = CandSock(LastAttempted) /\ fn.rc \in openFds)
        /\ \A k \in (LastAttempted + 1)..Len(fn.cands) :
              CandMade(k) => (CandSock(k) \notin openFds /\ CandSock(k) \in Range(multi.closes))

\* Two candidates that both can connect: the first is returned, the second closed.
C11_Witness ==
    /\ MultiReturned
    /\ Len(fn.cands) = 2
    /\ CandConnects(1) /\ CandConnects(2)
    /\ fn.rc = CandSock(1)
    /\ multi.attempts = <<1>>
    /\ CandSock(2) \in Range(multi.closes)

\* C12: when freerdp_tcp_connect_multi returns, the handles it has closed are
\* exactly the sockets it created other than the winner's, each closed once; the
\* winner's socket is open, and nothing it did not create is closed.
C12_Original ==
    MultiReturned =>
        /\ Range(multi.closes) = multi.created \ (IF multi.won THEN {fn.rc} ELSE {})
        /\ \A a, b \in DOMAIN multi.closes : multi.closes[a] = multi.closes[b] => a = b
        /\ multi.won => fn.rc \in openFds
        /\ openFds \ multi.created = fn.open

\* The freeaddrinfo calls made on the list of candidate k with a non-NULL argument.
CandFrees(k) ==
    {j \in DOMAIN multi.frees :
        multi.frees[j].list = <<"cand", k>> /\ multi.frees[j].from # 0}

\* C13: for every candidate that resolved, the resolved list is released exactly
\* once, and from its head entry, by the time freerdp_tcp_connect_multi returns.
C13_Original ==
    MultiReturned =>
        \A k \in 1..Len(fn.cands) :
            fn.cands[k].res # << >> =>
                /\ Cardinality(CandFrees(k)) = 1
                /\ \A j \in CandFrees(k) : multi.frees[j].from = 1

\* get_next_addrinfo, called on its own, has returned.
FamilyReturned == fn.op = "get_next_addrinfo" /\ fn.done

\* The entries of family f in the list that starts at the input entry.
EntriesOf(f) ==
    IF fn.input = 0 THEN {} ELSE {k \in fn.input..Len(resList) : resList[k] = f}

\* C14: with family F (4 or 6) forced, whatever the prefer-IPv6 flag,
\* get_next_addrinfo selects the first entry of family F if the list has one,
\* and fails, with an error recorded, exactly when the list has none.
C14_Original ==
    (FamilyReturned /\ settings.ForceIPvX \in {4, 6}) =>
        IF EntriesOf(Family(settings.ForceIPvX)) # {}
        THEN fn.rc = 0 /\ addr = SetMin(EntriesOf(Family(settings.ForceIPvX)))
        ELSE fn.rc = 0 - 1 /\ lastError # FREERDP_ERROR_SUCCESS

\* C15: with no family forced and a non-empty list, get_next_addrinfo never fails;
\* with prefer-IPv6 it selects the first IPv6 entry if there is one and the first
\* entry otherwise, and without it the first entry. It records no error and
\* releases nothing.
C15_PreferWithFallback ==
    (FamilyReturned /\ settings.ForceIPvX \notin {4, 6} /\ fn.input # 0) =>
        /\ fn.rc = 0
        /\ addr = IF settings.PreferIPv6OverIPv4 /\ EntriesOf("AF_INET6") # {}
                  THEN SetMin(EntriesOf("AF_INET6"))
                  ELSE fn.input
        /\ freeLog = << >>
        /\ lastError \in {FREERDP_ERROR_SUCCESS, "CONNECT_CANCELLED"}

\* Prefer-IPv6 on a list whose IPv6 entries come after the head: one is selected.
C15_Witness ==
    /\ FamilyReturned
    /\ settings.ForceIPvX = 0
    /\ settings.PreferIPv6OverIPv4
    /\ fn.input = 1
    /\ resList = <<"AF_INET", "AF_INET6">>
    /\ fn.rc = 0
    /\ addr = 2

\* C16: the abort event, once signaled, stays signaled while
\* freerdp_tcp_default_connect runs; when it is signaled at the final check the
\* function closes the socket and returns -1; so on every path a call returns a
\* socket only if the abort event was not signaled before or during the call.
C16_AbortNeverSucceeds ==
    /\ [][abortEv => abortEv']_vars
    /\ [][(dc_pc = "abortcheck" /\ abortEv) =>
            /\ dc_pc' = "done"
            /\ dcRet' = 0 - 1
            /\ closeLog' = Append(closeLog, sockfd)
            /\ sockfd \notin openFds']_vars
    /\ []((dc_pc = "done" /\ abortEv) => dcRet = 0 - 1)

\* A VSOCK connect that succeeded and was given up at the final check: the one
\* close of its socket, with no error recorded.
C16_Witness ==
    /\ dc_pc = "done"
    /\ hostname = "vsock"
    /\ abortEv
    /\ dcRet = 0 - 1
    /\ closeLog = <<sockfd>>
    /\ sockfd \notin openFds
    /\ lastError = FREERDP_ERROR_SUCCESS

\* C17: every return of -1 by freerdp_tcp_default_connect leaves an error code
\* recorded in the context.
C17_Original == (dc_pc = "done" /\ dcRet = 0 - 1) => lastError # FREERDP_ERROR_SUCCESS

\* ---- C18
\* The closes of the layer's socket, and of its readiness handle, that Close has
\* issued so far.
LayerSockCloses == {k \in DOMAIN os.sockCloses : os.sockCloses[k].by = "layer"}

LayerEvCloses == {k \in DOMAIN os.evCloses : os.evCloses[k].by = "layer"}

\* C18 (as stated): once Close has been called on a built transport layer, however
\* often, its socket has been closed exactly once and its readiness handle has
\* been released exactly once.
C18_Original ==
    (tl.stage = "live" /\ ioCalls.closes >= 1)
        => /\ Cardinality(LayerSockCloses) = 1
           /\ Cardinality(LayerEvCloses) = 1

\* ---- C19
BioSockCloses == {k \in DOMAIN os.sockCloses : os.sockCloses[k].by = "bio"}

BioEvCloses == {k \in DOMAIN os.evCloses : os.evCloses[k].by = "bio"}

C20_Original ==
    (lastRead.by \in {"bio", "layer"} /\ lastRead.status = 0)
        => (~lastRead.retry /\ ~lastRead.eagain)

\* ---- C21
\* C21 (as stated): freerdp_tcp_layer_wait returns TRUE exactly when the socket
\* became ready for the requested direction; a timeout, and a readiness call that
\* fails with an error other than an interruption, return FALSE.
C21_Original ==
    lastWait.called => (lastWait.ret <=> (lastWait.outcome = "ready"))

\* ---- C22
\* The closes of a socket the call created that were issued after its creation.
ClosesOf(e) == {k \in (e.at + 1)..Len(closeLog) : closeLog[k] = e.fd}

\* C22 (as stated): when freerdp_tcp_default_connect has returned, every socket it
\* created itself has been closed exactly once if the call failed, and is open and
\* was never closed if the call succeeded.
C22_Original ==
    (dc_pc = "done")
        => \A k \in DOMAIN dcHist.made :
              IF dcRet = 0 - 1
              THEN /\ Cardinality(ClosesOf(dcHist.made[k])) = 1
                   /\ dcHist.made[k].fd \notin openFds
              ELSE /\ ClosesOf(dcHist.made[k]) = {}
                   /\ dcHist.made[k].fd \in openFds

\* ---- C23
\* The freeaddrinfo calls on the list resolved for the host name.
HostFrees == SelectSeq(freeLog, LAMBDA f : f.list = <<"host", 0>>)

\* C23 (as stated): when the host-name path has returned after resolving a list,
\* the list has been released exactly once, from its head.
C23_Original ==
    (dc_pc = "done" /\ resList # << >>)
        => HostFrees = <<[list |-> <<"host", 0>>, from |-> 1]>>

\* ---- C24
\* The entry k of the resolved list is of a family the settings allow.
Allowed(k) ==
    settings.ForceIPvX \in {4, 6} => resList[k] = Family(settings.ForceIPvX)

\* The socket loop gave up: socket() was called and never succeeded.
SocketLoopFailed == dc_pc = "done" /\ dcHist.tried # << >> /\ dcHist.made = << >>

\* C24 (as stated): in the host-name path socket() is called for allowed entries of
\* the resolved list only, in list order and for each at most once; the loop fails,
\* with connect-failed, only when no allowed entry is left after the last one
\* tried; and the connect is attempted only for the entry whose socket was created.
C24_Original ==
    /\ \A j, k \in DOMAIN dcHist.tried : j < k => dcHist.tried[j] < dcHist.tried[k]
    /\ \A k \in DOMAIN dcHist.tried : Allowed(dcHist.tried[k])
    /\ SocketLoopFailed
        => /\ dcRet = 0 - 1
           /\ lastError = "CONNECT_FAILED"
           /\ \A k \in DOMAIN resList :
                k > dcHist.tried[Len(dcHist.tried)] => ~Allowed(k)
    /\ (hostname = "host" /\ ct_pc # "idle" /\ ~multi.won)
        => /\ Len(dcHist.made) = 1
           /\ addr = dcHist.tried[Len(dcHist.tried)]

\* ---- C25
\* C25: the event freerdp_tcp_connect_timeout creates for the attempt is not
\* closed while the function runs, has been closed exactly once when the function
\* has returned by any exit after creating it (and no event exists when
\* CreateEvent failed), and the abort event is never closed.
C25_HandleReleasedOnce ==
    /\ dcHist.abortCloses = 0
    /\ ct_pc \in {"idle", "wait", "probe"} => hEventCloses = 0
    /\ ct_pc = "ret"
        => IF ct_why = "noevent"
           THEN hEvent = "none" /\ hEventCloses = 0
           ELSE hEvent = "closed" /\ hEventCloses = 1

\* The function returned because the abort event was signaled while it waited:
\* its own event is closed, the abort event is not.
C25_Witness ==
    /\ ct_pc = "ret"
    /\ ct_why = "cancelled"
    /\ abortEv
    /\ hEvent = "closed"
    /\ hEventCloses = 1
    /\ dcHist.abortCloses = 0

\* ---- C26
\* C26 (as stated): every call that has entered the drain loop of the buffered
\* write returns, whatever the next BIO answers.
C26_Original == (bw_pc = "drain") ~> (bw_pc = "idle")

\* ---- C27
\* The call that has just returned reported success.
CallSucceeded ==
    /\ call.done
    /\ \/ call.op = "write" /\ call.result >= 0
       \/ call.op = "flush" /\ call.result = 1

\* C27: in every state writeBlocked implies that bytes are pending, and after a
\* write or flush that returned success, pending bytes imply writeBlocked.
C27_BlockedIffPending ==
    /\ writeBlocked => WPending > 0
    /\ (CallSucceeded /\ WPending > 0) => writeBlocked

\* A flush that got some bytes accepted returned success with bytes still pending
\* and the flag raised.
C27_Witness ==
    /\ call.op = "flush" /\ call.done /\ call.result = 1
    /\ Len(accepted) > call.accBefore
    /\ WPending > 0
    /\ writeBlocked

\* ---- C28
\* C28 (as stated): with the external-descriptor marker the function never closes
\* the descriptor of the caller, and when it succeeds it returns that descriptor
\* without having resolved a name, created a socket or started a connect.
C28_Original ==
    (hostname = "external")
        => /\ closeLog = << >>
           /\ (dc_pc = "done" /\ dcRet # 0 - 1)
                => /\ dcRet = sockfd
                   /\ resList = << >>
                   /\ dcHist.made = << >>
                   /\ ct_pc = "idle"

====
